---- MODULE Spec2Model ----
(***************************************************************************)
(* Model of src/app.py: the recipe generation form handler, the nutrition  *)
(* extractor extract_nutrition_info, the session state (generated_recipes, *)
(* nutrition_data) and the history view.                                   *)
(*                                                                         *)
(* Text is a sequence of tokens.  One token is one character of the Python *)
(* string, except that each multi-character literal the code searches for  *)
(* is one token (no such literal is a substring of another, and none       *)
(* contains a whitespace, colon, digit or dot character):                  *)
(*   "L_cal"     the label  カロリー        "kcal"  the unit  kcal         *)
(*   "L_protein" the label  タンパク質      "g"     the unit  g            *)
(*   "L_fat"     the label  脂質            "SP"    a blank                *)
(*   "L_carb"    the label  炭水化物        "NL"    a line feed            *)
(*   "RecipeName" the word  レシピ名        ":"     the narrow colon       *)
(*   "FWCOLON"   the full-width colon  ：   "."     the dot                *)
(*   "0".."9"    the digits                 "x","y" any other character    *)
(***************************************************************************)
EXTENDS Integers, Sequences, FiniteSets, TLC

VARIABLES
    pc,                 \* position of the script run inside the submit handler
    ingredients_input,  \* st.text_area value of the submitted form
    formatted_ingredients, \* the ingredient list written into the prompt
    recipe_text,        \* response.text of the request in flight
    nutrition_values,   \* result of extract_nutrition_info(recipe_text)
    nutrition_data,     \* st.session_state.nutrition_data (rows, in order)
    generated_recipes,  \* st.session_state.generated_recipes (in order)
    aiCalls,            \* generate_content calls made by the request in flight
    response,           \* what the collaborator answered to the request in flight
    requests,           \* requests submitted so far
    before,             \* both collections as they were when the form was submitted
    outcomes,           \* terminal outcome of every finished request, in order
    viewRaised          \* the last history view rendering raised IndexError

vars == <<pc, ingredients_input, formatted_ingredients, recipe_text,
          nutrition_values, nutrition_data, generated_recipes, aiCalls,
          response, requests, before, outcomes, viewRaised>>

-----------------------------------------------------------------------------
(* Bounds *)

\* requests submitted in one session
MaxRequests == 3
\* length of the exhaustively enumerated response texts
MaxLen == 4
\* number of fragments concatenated into a longer response text
MaxFrags == 2

-----------------------------------------------------------------------------
(* Character classes *)

\* \s of the regular expressions, str.strip()
Whitespace == {"SP", "NL"}
\* the line boundaries of str.splitlines()
LineBreak == {"NL"}
\* [：:]
Colon == {":", "FWCOLON"}
\* \d
Digit == {"0", "1", "2", "3", "4", "5", "6", "7", "8", "9"}

DigitVal(d) ==
    [c \in Digit |->
        CASE c = "0" -> 0 [] c = "1" -> 1 [] c = "2" -> 2 [] c = "3" -> 3
          [] c = "4" -> 4 [] c = "5" -> 5 [] c = "6" -> 6 [] c = "7" -> 7
          [] c = "8" -> 8 [] c = "9" -> 9][d]

-----------------------------------------------------------------------------
(* float(): a decimal numeral to a number.  A number is <<n, d>>, the      *)
(* value n / d with d a power of ten and no common factor ten.             *)

Zero == <<0, 1>>

RECURSIVE Normalise(_, _)
Normalise(n, d) ==
    IF d > 1 /\ n % 10 = 0 THEN Normalise(n \div 10, d \div 10) ELSE <<n, d>>

\* the number written by the first n digits of s
RECURSIVE DigitsValue(_, _)
DigitsValue(s, n) ==
    IF n = 0 THEN 0
    ELSE 10 * DigitsValue(s, n - 1) + DigitVal(s[n])

RECURSIVE Pow10(_)
Pow10(k) == IF k = 0 THEN 1 ELSE 10 * Pow10(k - 1)

\* the strings float() accepts among those made of digits and dots
\* ("12", "12.5", "12.", ".5"); every other string raises ValueError
IsNumeral(s) ==
    LET dots == {i \in 1..Len(s) : s[i] = "."}
    IN  /\ \A i \in 1..Len(s) : s[i] \in Digit \cup {"."}
        /\ Cardinality(dots) <= 1
        /\ \E i \in 1..Len(s) : s[i] \in Digit

Float(s) ==
    LET dots == {i \in 1..Len(s) : s[i] = "."}
        dot  == IF dots = {} THEN Len(s) + 1 ELSE CHOOSE i \in dots : TRUE
        ip   == SubSeq(s, 1, dot - 1)
        fp   == SubSeq(s, dot + 1, Len(s))
    IN  Normalise(DigitsValue(ip \o fp, Len(ip) + Len(fp)), Pow10(Len(fp)))

-----------------------------------------------------------------------------
(* re.search: a backtracking matcher over the pattern elements used by     *)
(* the four patterns.                                                      *)

El(k, t, s, p) == [k |-> k, t |-> t, s |-> s, p |-> p]
Lit(t)   == El("lit", t, {}, <<>>)
Star(s)  == El("star", "", s, <<>>)
Plus(s)  == El("plus", "", s, <<>>)
Cls(s)   == El("cls", "", s, <<>>)
Opt(p)   == El("opt", "", {}, p)
Open     == El("open", "", {}, <<>>)
Close    == El("close", "", {}, <<>>)

NoMatch == [ok |-> FALSE, s |-> 0, e |-> 0]

\* number of consecutive tokens of class S from position pos on
RECURSIVE Run(_, _, _)
Run(text, pos, S) ==
    IF pos <= Len(text) /\ text[pos] \in S THEN 1 + Run(text, pos + 1, S) ELSE 0

\* the matches of pat at position pos, in the order in which the
\* backtracking matcher tries them; g is group 1 as captured so far
RECURSIVE Match(_, _, _, _)
RECURSIVE TryRep(_, _, _, _, _, _)
Match(pat, text, pos, g) ==
    IF pat = <<>> THEN << [ok |-> TRUE, s |-> g.s, e |-> g.e] >>
    ELSE CASE pat[1].k = "lit" ->
                  IF pos <= Len(text) /\ text[pos] = pat[1].t
                  THEN Match(Tail(pat), text, pos + 1, g) ELSE <<>>
           [] pat[1].k = "cls" ->
                  IF pos <= Len(text) /\ text[pos] \in pat[1].s
                  THEN Match(Tail(pat), text, pos + 1, g) ELSE <<>>
           [] pat[1].k = "star" ->
                  TryRep(Tail(pat), text, pos, Run(text, pos, pat[1].s), 0, g)
           [] pat[1].k = "plus" ->
                  TryRep(Tail(pat), text, pos, Run(text, pos, pat[1].s), 1, g)
           [] pat[1].k = "opt" ->
                  Match(pat[1].p \o Tail(pat), text, pos, g)
                      \o Match(Tail(pat), text, pos, g)
           [] pat[1].k = "open"  -> Match(Tail(pat), text, pos, [g EXCEPT !.s = pos])
           [] pat[1].k = "close" -> Match(Tail(pat), text, pos, [g EXCEPT !.e = pos])

\* greedy repetition: the longest run first, giving back one token at a time
TryRep(rest, text, pos, n, min, g) ==
    IF n < min THEN <<>>
    ELSE Match(rest, text, pos + n, g) \o TryRep(rest, text, pos, n - 1, min, g)

\* the matches at position pos and at the positions after it
RECURSIVE SearchFrom(_, _, _)
SearchFrom(pat, text, pos) ==
    IF pos > Len(text) + 1 THEN <<>>
    ELSE Match(pat, text, pos, NoMatch) \o SearchFrom(pat, text, pos + 1)

\* re.search(pattern, text): the first match at the leftmost position that
\* has one, or None
Search(pat, text) == Head(SearchFrom(pat, text, 1) \o <<NoMatch>>)

\* match.group(1)
Group1(text, m) == SubSeq(text, m.s, m.e - 1)

-----------------------------------------------------------------------------
(* extract_nutrition_info *)

\* the keys of the nutrition dict, in the order of patterns.items()
Fields == <<"cal_kcal", "protein_g", "fat_g", "carb_g">>
FieldSet == {Fields[i] : i \in 1..Len(Fields)}

LabelOf(f) ==
    CASE f = "cal_kcal" -> "L_cal" [] f = "protein_g" -> "L_protein"
      [] f = "fat_g" -> "L_fat" [] f = "carb_g" -> "L_carb"

UnitOf(f) == IF f = "cal_kcal" THEN "kcal" ELSE "g"

\* the patterns with the narrow colon alone
patterns_NarrowColon(f) ==
    << Lit(LabelOf(f)), Star(Whitespace), Lit(":"), Star(Whitespace),
       Open, Plus(Digit), Opt(<<Lit("."), Plus(Digit)>>), Close,
       Star(Whitespace), Lit(UnitOf(f)) >>

\* <label>\s*[：:]\s*(\d+(\.\d+)?)\s*<unit>
patterns(f) ==
    << Lit(LabelOf(f)), Star(Whitespace), Cls(Colon), Star(Whitespace),
       Open, Plus(Digit), Opt(<<Lit("."), Plus(Digit)>>), Close,
       Star(Whitespace), Lit(UnitOf(f)) >>

\* what the loop body stores for one key, given the result of re.search
Store(nutrition, f, text, match) ==
    IF match.ok
    THEN IF IsNumeral(Group1(text, match))
         THEN [nutrition EXCEPT ![f] = Float(Group1(text, match))]
         ELSE nutrition
    ELSE nutrition

\* the loop body for one key: search once, convert, store
ExtractField(nutrition, f, text) ==
    CHOOSE stored \in
        {Store(nutrition, f, text, match) :
            match \in {Search(pattern, text) : pattern \in {patterns(f)}}} : TRUE

\* the loop left at the first key whose pattern is not found
RECURSIVE ExtractLoop_StopsAtMiss(_, _, _)
ExtractLoop_StopsAtMiss(nutrition, i, text) ==
    IF i > Len(Fields) THEN nutrition
    ELSE IF ~Search(patterns(Fields[i]), text).ok THEN nutrition
    ELSE ExtractLoop_StopsAtMiss(ExtractField(nutrition, Fields[i], text), i + 1, text)

RECURSIVE ExtractLoop(_, _, _)
ExtractLoop(nutrition, i, text) ==
    IF i > Len(Fields) THEN nutrition
    ELSE ExtractLoop(ExtractField(nutrition, Fields[i], text), i + 1, text)

extract_nutrition_info(text) ==
    ExtractLoop([f \in FieldSet |-> Zero], 1, text)

-----------------------------------------------------------------------------
(* String methods used by the handler and the history view *)

\* str.splitlines(): no line for an empty string, none after a final line break
RECURSIVE splitlines(_)
splitlines(s) ==
    IF s = <<>> THEN <<>>
    ELSE LET brk == {i \in 1..Len(s) : s[i] \in LineBreak}
         IN  IF brk = {} THEN <<s>>
             ELSE LET i == CHOOSE j \in brk : \A k \in brk : j <= k
                  IN  <<SubSeq(s, 1, i - 1)>> \o splitlines(SubSeq(s, i + 1, Len(s)))

\* sub occurs in s at position i
OccursAt(s, sub, i) ==
    /\ i + Len(sub) - 1 <= Len(s)
    /\ \A k \in 1..Len(sub) : s[i + k - 1] = sub[k]

\* sub in s
Contains(s, sub) == \E i \in 1..Len(s) : OccursAt(s, sub, i)

\* s.replace(old, ""): the occurrences of old removed, left to right
RECURSIVE Remove(_, _)
Remove(s, old) ==
    IF s = <<>> THEN <<>>
    ELSE IF OccursAt(s, old, 1) THEN Remove(SubSeq(s, Len(old) + 1, Len(s)), old)
    ELSE <<s[1]>> \o Remove(Tail(s), old)

\* s.strip()
RECURSIVE strip(_)
strip(s) ==
    IF s = <<>> THEN <<>>
    ELSE IF s[1] \in Whitespace THEN strip(Tail(s))
    ELSE IF s[Len(s)] \in Whitespace THEN strip(SubSeq(s, 1, Len(s) - 1))
    ELSE s

\* s.split(','): one more item than there are commas
RECURSIVE split(_)
split(s) ==
    LET commas == {i \in 1..Len(s) : s[i] = ","}
    IN  IF commas = {} THEN <<s>>
        ELSE LET i == CHOOSE j \in commas : \A k \in commas : j <= k
             IN  <<SubSeq(s, 1, i - 1)>> \o split(SubSeq(s, i + 1, Len(s)))

\* ", ".join(items)
RECURSIVE join(_)
join(items) ==
    IF items = <<>> THEN <<>>
    ELSE IF Len(items) = 1 THEN items[1]
    ELSE items[1] \o <<",", "SP">> \o join(Tail(items))

\* [ing.strip() for ing in ingredients_input.split(',') if ing.strip()]
RECURSIVE StrippedNonBlank(_)
StrippedNonBlank(items) ==
    IF items = <<>> THEN <<>>
    ELSE (IF strip(items[1]) # <<>> THEN <<strip(items[1])>> ELSE <<>>)
         \o StrippedNonBlank(Tail(items))

IngredientList(inp) == StrippedNonBlank(split(inp))

-----------------------------------------------------------------------------
(* The ledger row and the history record *)

\* "レシピ名：" (the word and the full-width colon)
NameLabel == <<"RecipeName", "FWCOLON">>
\* "不明なレシピ"
UnknownRecipe == <<"UnknownRecipe">>

\* the first line taken before the label is looked for
NameRaises_Always(text) == splitlines(text) = <<>>

\* recipe_text.splitlines()[0] raises IndexError on a text without lines; the
\* row evaluates it only when the label occurs in the text
NameRaises(text) == Contains(text, NameLabel) /\ splitlines(text) = <<>>

\* the recipe name column of new_nutrition_row
RowName(text) ==
    IF Contains(text, NameLabel)
    THEN CHOOSE name \in
             {strip(removed) :
                 removed \in {Remove(line, NameLabel) :
                                 line \in {splitlines(text)[1]}}} : TRUE
    ELSE UnknownRecipe

\* new_nutrition_row (the date column is the wall clock and is left out)
new_nutrition_row(text, values) ==
    [ recipe_name |-> RowName(text),
      cal_kcal    |-> values["cal_kcal"],
      protein_g   |-> values["protein_g"],
      fat_g       |-> values["fat_g"],
      carb_g      |-> values["carb_g"] ]

\* the dict appended to generated_recipes (the inputs other than the
\* ingredients and the timestamp take no part in any decision)
RecipeEntry(inp, text, values) ==
    [ inputs |-> inp, recipe_text |-> text, nutrition_info |-> values ]

\* the expander title of the history view raises IndexError for this entry
TitleRaises(entry) == splitlines(entry.recipe_text) = <<>>

-----------------------------------------------------------------------------
(* Inputs *)

\* values of the ingredients text area: empty, a list of two, and an input
\* of separators that holds no ingredient
IngredientInputs ==
    { <<>>, <<"x", ",", "SP", "y">>, <<",", "SP">> }

\* a recipe name line and one nutrition line
LabelledRecipe ==
    << "RecipeName", "FWCOLON", "SP", "x", "NL",
       "L_cal", "FWCOLON", "3", "5", "0", "kcal" >>

\* a preamble line before the recipe name line
PreambleRecipe ==
    << "y", "NL", "RecipeName", "FWCOLON", "x", "NL", "L_fat", ":", "5", "g" >>

\* response.text values of the collaborator
ResponseTexts == { <<>>, <<"x", "y">>, LabelledRecipe, PreambleRecipe }

\* tokens of the exhaustively enumerated texts
Alphabet ==
    { "L_cal", "L_fat", "SP", "NL", ":", "FWCOLON", "1", "5", ".", "kcal", "g", "x" }

RECURSIVE SeqsUpTo(_)
SeqsUpTo(n) ==
    IF n = 0 THEN {<<>>}
    ELSE LET S == SeqsUpTo(n - 1)
         IN  S \cup {Append(t, a) : t \in {u \in S : Len(u) = n - 1}, a \in Alphabet}

\* labelled quantities, well formed and not
Fragments ==
    { <<"L_cal", "FWCOLON", "3", "5", "0", "kcal", "NL",
        "L_protein", ":", "SP", "2", "0", "g", "NL",
        "L_fat", ":", "1", "0", ".", "5", "g">>,
      <<"L_cal", ":", "1", "2", ".", "5", "0", "SP", "kcal">>,
      <<"L_cal", ":", "9", "g">>,
      <<"L_protein", ":", "SP", ".", "5", "g">>,
      <<"L_protein", "SP", "SP", ":", "0", "8", "g">>,
      <<"L_fat", ":", "7", "g">>,
      <<"L_fat", ":", "1", ".", "g">>,
      <<"L_fat", "x", ":", "3", "g">>,
      <<"L_fat", ":", "1", ".", "5", ".", "2", "g">>,
      <<"L_carb", "SP", "FWCOLON", "NL", "4", "SP", "g">>,
      <<"L_carb", ":", "6", "0", "kcal">>,
      <<"RecipeName", "FWCOLON", "x">>,
      <<"NL">>, <<"x">>, <<"2">> }

RECURSIVE FragTexts(_)
FragTexts(n) ==
    IF n = 0 THEN {<<>>}
    ELSE LET S == FragTexts(n - 1)
         IN  S \cup {t \o f : t \in S, f \in Fragments}

\* texts handed to extract_nutrition_info
Texts == SeqsUpTo(MaxLen) \cup FragTexts(MaxFrags)

-----------------------------------------------------------------------------
(* The session *)

Terminal == {"Rejected", "Failed", "Succeeded"}

NoValues == [f \in FieldSet |-> Zero]

\* st.session_state after the initialisation at the top of the script
Init ==
    /\ pc = "Idle"
    /\ ingredients_input = <<>>
    /\ formatted_ingredients = <<>>
    /\ recipe_text = <<>>
    /\ nutrition_values = NoValues
    /\ nutrition_data = <<>>
    /\ generated_recipes = <<>>
    /\ aiCalls = 0
    /\ response = "none"
    /\ requests = 0
    /\ before = [recipes |-> <<>>, data |-> <<>>]
    /\ outcomes = <<>>
    /\ viewRaised = FALSE

\* ingredients_input is None
IsEmptyInput_Never(inp) == FALSE

\* not ingredients_input
IsEmptyInput(inp) == inp = <<>>

\* the form is submitted (the API key is set, so the form is shown): a
\* script run starts with fresh locals
Submit(inp) ==
    /\ pc = "Idle"
    /\ requests < MaxRequests
    /\ pc' = "Validating"
    /\ ingredients_input' = inp
    /\ formatted_ingredients' = <<>>
    /\ recipe_text' = <<>>
    /\ nutrition_values' = NoValues
    /\ aiCalls' = 0
    /\ response' = "none"
    /\ requests' = requests + 1
    /\ before' = [recipes |-> generated_recipes, data |-> nutrition_data]
    /\ UNCHANGED <<nutrition_data, generated_recipes, outcomes, viewRaised>>

\* st.warning: no ingredient entered
Reject ==
    /\ pc = "Validating"
    /\ IsEmptyInput(ingredients_input)
    /\ pc' = "Rejected"
    /\ outcomes' = Append(outcomes, "Rejected")
    /\ UNCHANGED <<ingredients_input, formatted_ingredients, recipe_text,
                   nutrition_values, nutrition_data, generated_recipes, aiCalls,
                   response, requests, before, viewRaised>>

\* formatted_ingredients and the prompt
BuildPrompt ==
    /\ pc = "Validating"
    /\ ~IsEmptyInput(ingredients_input)
    /\ formatted_ingredients' = join(IngredientList(ingredients_input))
    /\ pc' = "Requesting"
    /\ UNCHANGED <<ingredients_input, recipe_text, nutrition_values,
                   nutrition_data, generated_recipes, aiCalls, response,
                   requests, before, outcomes, viewRaised>>

\* generate_content(prompt) returns and response.text is text
CollaboratorReturns(text) ==
    /\ pc = "Requesting"
    /\ aiCalls' = aiCalls + 1
    /\ response' = "text"
    /\ recipe_text' = text
    /\ pc' = "Extracting"
    /\ UNCHANGED <<ingredients_input, formatted_ingredients, nutrition_values,
                   nutrition_data, generated_recipes, requests, before,
                   outcomes, viewRaised>>

\* a ledger row written before the call and left there when it raises
CollaboratorRaises_KeepsRow ==
    /\ pc = "Requesting"
    /\ aiCalls' = aiCalls + 1
    /\ response' = "error"
    /\ pc' = "Failed"
    /\ outcomes' = Append(outcomes, "Failed")
    /\ nutrition_data' = Append(nutrition_data, new_nutrition_row(<<>>, NoValues))
    /\ UNCHANGED <<ingredients_input, formatted_ingredients, recipe_text,
                   nutrition_values, generated_recipes, requests, before,
                   viewRaised>>

\* the call made once more after it raised
CollaboratorRaises_Retries ==
    /\ pc = "Requesting"
    /\ aiCalls' = aiCalls + 1
    /\ response' = "error"
    /\ IF aiCalls = 0
       THEN pc' = "Requesting" /\ UNCHANGED outcomes
       ELSE pc' = "Failed" /\ outcomes' = Append(outcomes, "Failed")
    /\ UNCHANGED <<ingredients_input, formatted_ingredients, recipe_text,
                   nutrition_values, nutrition_data, generated_recipes,
                   requests, before, viewRaised>>

\* generate_content(prompt) or response.text raises: except Exception
CollaboratorRaises ==
    /\ pc = "Requesting"
    /\ aiCalls' = aiCalls + 1
    /\ response' = "error"
    /\ pc' = "Failed"
    /\ outcomes' = Append(outcomes, "Failed")
    /\ UNCHANGED <<ingredients_input, formatted_ingredients, recipe_text,
                   nutrition_values, nutrition_data, generated_recipes,
                   requests, before, viewRaised>>

\* nutrition_values = extract_nutrition_info(recipe_text)
ExtractNutrition ==
    /\ pc = "Extracting"
    /\ nutrition_values' = extract_nutrition_info(recipe_text)
    /\ pc' = "AppendLedger"
    /\ UNCHANGED <<ingredients_input, formatted_ingredients, recipe_text,
                   nutrition_data, generated_recipes, aiCalls, response,
                   requests, before, outcomes, viewRaised>>

\* no row written for a reading of zeros
AppendLedger_SkipsZeros ==
    /\ pc = "AppendLedger"
    /\ pc' = "AppendHistory"
    /\ nutrition_data' =
           IF nutrition_values = NoValues THEN nutrition_data
           ELSE Append(nutrition_data, new_nutrition_row(recipe_text, nutrition_values))
    /\ UNCHANGED <<ingredients_input, formatted_ingredients, recipe_text,
                   nutrition_values, generated_recipes, aiCalls, response,
                   requests, before, outcomes, viewRaised>>

\* new_nutrition_row and pd.concat; an IndexError goes to except Exception
AppendLedger ==
    /\ pc = "AppendLedger"
    /\ IF NameRaises(recipe_text)
       THEN /\ pc' = "Failed"
            /\ outcomes' = Append(outcomes, "Failed")
            /\ UNCHANGED nutrition_data
       ELSE /\ pc' = "AppendHistory"
            /\ nutrition_data' =
                   Append(nutrition_data, new_nutrition_row(recipe_text, nutrition_values))
            /\ UNCHANGED outcomes
    /\ UNCHANGED <<ingredients_input, formatted_ingredients, recipe_text,
                   nutrition_values, generated_recipes, aiCalls, response,
                   requests, before, viewRaised>>

\* generated_recipes.append and st.success
AppendHistory ==
    /\ pc = "AppendHistory"
    /\ generated_recipes' =
           Append(generated_recipes,
                  RecipeEntry(ingredients_input, recipe_text, nutrition_values))
    /\ pc' = "Succeeded"
    /\ outcomes' = Append(outcomes, "Succeeded")
    /\ UNCHANGED <<ingredients_input, formatted_ingredients, recipe_text,
                   nutrition_values, nutrition_data, aiCalls, response,
                   requests, before, viewRaised>>

\* the rest of the script run: the nutrition tab and the history tab, whose
\* expander title is taken from every stored entry
RenderViews ==
    /\ pc \in Terminal
    /\ viewRaised' = \E i \in 1..Len(generated_recipes) : TitleRaises(generated_recipes[i])
    /\ pc' = "Idle"
    /\ UNCHANGED <<ingredients_input, formatted_ingredients, recipe_text,
                   nutrition_values, nutrition_data, generated_recipes, aiCalls,
                   response, requests, before, outcomes>>

\* the steps of a script run that need nothing from outside
HandlerStep ==
    \/ Reject
    \/ BuildPrompt
    \/ ExtractNutrition
    \/ AppendLedger
    \/ AppendHistory
    \/ RenderViews

\* the answer of the collaborator
CollaboratorStep ==
    \/ \E text \in ResponseTexts : CollaboratorReturns(text)
    \/ CollaboratorRaises

Next ==
    \/ \E inp \in IngredientInputs : Submit(inp)
    \/ HandlerStep
    \/ CollaboratorStep

Spec == Init /\ [][Next]_vars

\* a script run goes on until it ends, and the blocking call to the
\* collaborator is taken to answer
FairSpec == Spec /\ WF_vars(HandlerStep) /\ WF_vars(CollaboratorStep)

-----------------------------------------------------------------------------
(* The extractor alone: a response text has just been received *)

ExtractInit ==
    /\ pc = "Extracting"
    /\ ingredients_input = <<"x", ",", "SP", "y">>
    /\ formatted_ingredients = join(IngredientList(ingredients_input))
    /\ recipe_text \in Texts
    /\ nutrition_values = NoValues
    /\ nutrition_data = <<>>
    /\ generated_recipes = <<>>
    /\ aiCalls = 1
    /\ response = "text"
    /\ requests = 1
    /\ before = [recipes |-> <<>>, data |-> <<>>]
    /\ outcomes = <<>>
    /\ viewRaised = FALSE

ExtractNext == ExtractNutrition

ExtractSpec == ExtractInit /\ [][ExtractNext]_vars

-----------------------------------------------------------------------------
(* Properties of the session *)

\* number of requests that ended in Succeeded
SucceededCount == Cardinality({i \in 1..Len(outcomes) : outcomes[i] = "Succeeded"})

\* no request is between its two appends
BetweenRequests == pc \in {"Idle"} \cup Terminal

UnchangedSinceSubmit ==
    /\ generated_recipes = before.recipes
    /\ nutrition_data = before.data

LastOutcome == IF outcomes = <<>> THEN "none" ELSE outcomes[Len(outcomes)]

\* C1: after any mix of rejected, failed and succeeded requests of which N
\* succeeded, the history has N records; between requests the ledger has N
\* rows too, and the i-th row carries the four nutrition values of the i-th
\* record.
C1_LedgerMatchesHistory ==
    /\ Len(generated_recipes) = SucceededCount
    /\ BetweenRequests => Len(nutrition_data) = SucceededCount
    /\ \A i \in 1..Len(generated_recipes) :
          /\ i <= Len(nutrition_data)
          /\ \A f \in FieldSet :
                nutrition_data[i][f] = generated_recipes[i].nutrition_info[f]

C1_Witness ==
    /\ pc = "Idle"
    /\ outcomes = <<"Succeeded", "Failed", "Succeeded">>
    /\ Len(nutrition_data) = 2
    /\ nutrition_data[1].cal_kcal # nutrition_data[2].cal_kcal

\* C2: a request submitted with empty ingredients input ends in Rejected,
\* without a collaborator call and with both collections unchanged.
C2_EmptyInputRejected ==
    (ingredients_input = <<>> /\ requests > 0 /\ pc # "Validating") =>
        /\ pc \in {"Rejected", "Idle"}
        /\ LastOutcome = "Rejected"
        /\ aiCalls = 0
        /\ response = "none"
        /\ UnchangedSinceSubmit

C2_Witness ==
    /\ pc = "Rejected"
    /\ ingredients_input = <<>>
    /\ Len(generated_recipes) = 1
    /\ Len(nutrition_data) = 1

\* C3: whenever the collaborator is invoked, the ingredient list written
\* into the prompt (split on commas, trimmed, blanks dropped) is non-empty.
C3_PromptHasIngredients ==
    (pc = "Requesting" \/ aiCalls > 0) =>
        /\ IngredientList(ingredients_input) # <<>>
        /\ formatted_ingredients # <<>>

\* C4: when the collaborator call raises, the request ends in Failed and the
\* history and the ledger are what they were before the request.
C4_FailureLeavesNoRecord ==
    response = "error" =>
        /\ pc \in {"Failed", "Idle"}
        /\ LastOutcome = "Failed"
        /\ UnchangedSinceSubmit

C4_Witness ==
    /\ pc = "Failed"
    /\ response = "error"
    /\ Len(generated_recipes) = 2
    /\ Len(nutrition_data) = 2

\* C5: every response text, also one without any nutrition label, makes the
\* request end in Succeeded: it never ends in Failed, and once it has ended
\* exactly one record and one row were appended, holding the response text
\* and 0.0 for every field whose pattern is not found in it.
C5_AnyTextSucceeds ==
    response = "text" =>
        /\ pc \in {"Extracting", "AppendLedger", "AppendHistory", "Succeeded", "Idle"}
        /\ pc \in {"Succeeded", "Idle"} =>
              /\ LastOutcome = "Succeeded"
              /\ Len(generated_recipes) = Len(before.recipes) + 1
              /\ Len(nutrition_data) = Len(before.data) + 1
              /\ SubSeq(generated_recipes, 1, Len(before.recipes)) = before.recipes
              /\ SubSeq(nutrition_data, 1, Len(before.data)) = before.data
              /\ generated_recipes[Len(generated_recipes)].recipe_text = recipe_text
              /\ \A f \in FieldSet :
                    ~Search(patterns(f), recipe_text).ok =>
                        /\ generated_recipes[Len(generated_recipes)].nutrition_info[f] = Zero
                        /\ nutrition_data[Len(nutrition_data)][f] = Zero

C5_Witness ==
    /\ pc = "Succeeded"
    /\ \A f \in FieldSet : ~Search(patterns(f), recipe_text).ok
    /\ Len(generated_recipes) = 2
    /\ generated_recipes[2].nutrition_info = NoValues
    /\ generated_recipes[1].nutrition_info # NoValues

\* the first line of the text that holds the recipe name label
FirstLabelledLine(text) ==
    LET lines == splitlines(text)
        held  == {i \in 1..Len(lines) : Contains(lines[i], NameLabel)}
    IN  lines[CHOOSE i \in held : \A j \in held : i <= j]

\* C8: the recipe name of every ledger row is the first line of the recipe
\* text that carries the recipe name label, with the label removed and
\* trimmed, and it is the fallback name exactly when the label is absent.
C8_NameFromLabelledLine ==
    \A i \in 1..Len(generated_recipes) :
        i <= Len(nutrition_data) =>
            LET text == generated_recipes[i].recipe_text
            IN  /\ Contains(text, NameLabel) =>
                       nutrition_data[i].recipe_name =
                           strip(Remove(FirstLabelledLine(text), NameLabel))
                /\ nutrition_data[i].recipe_name = UnknownRecipe
                       <=> ~Contains(text, NameLabel)

\* every request has one terminal outcome once it has ended, none before
OneOutcomePerRequest ==
    Len(outcomes) = IF BetweenRequests THEN requests ELSE requests - 1

\* C9: a request makes at most one collaborator call, reaches exactly one
\* terminal outcome when its collaborator call answers, and the session is
\* back in Idle afterwards.
C9_RequestsEndAndSessionGoesOn ==
    /\ [](aiCalls <= 1)
    /\ []OneOutcomePerRequest
    /\ (pc = "Validating") ~> (pc \in Terminal)
    /\ (pc \in Terminal) ~> (pc = "Idle")

C9_Witness ==
    /\ pc = "Succeeded"
    /\ outcomes = <<"Rejected", "Failed", "Succeeded">>

\* C10: the history view can be rendered for every stored record: each
\* recipe_text has a first line for the expander title.
C10_HistoryViewRenders ==
    /\ ~viewRaised
    /\ \A i \in 1..Len(generated_recipes) :
          splitlines(generated_recipes[i].recipe_text) # <<>>

-----------------------------------------------------------------------------
(* Properties of the extractor *)

AllDigits(s) == \A i \in 1..Len(s) : s[i] \in Digit

\* an integer or decimal numeral: digits, or digits, a dot and digits
IsNumber(s) ==
    /\ s # <<>>
    /\ \/ AllDigits(s)
       \/ \E d \in 2..(Len(s) - 1) :
             /\ s[d] = "."
             /\ AllDigits(SubSeq(s, 1, d - 1))
             /\ AllDigits(SubSeq(s, d + 1, Len(s)))

AllWhitespace(text, a, b) == \A k \in a..b : text[k] \in Whitespace

\* a labelled quantity of field f starts at position p, its number being
\* text[ns..ne]: label, blanks, colon, blanks, number, blanks, unit
WellFormedAt(f, text, p, ns, ne) ==
    /\ text[p] = LabelOf(f)
    /\ \E c \in (p + 1)..(ns - 1) :
          /\ text[c] \in Colon
          /\ AllWhitespace(text, p + 1, c - 1)
          /\ AllWhitespace(text, c + 1, ns - 1)
    /\ IsNumber(SubSeq(text, ns, ne))
    /\ \E u \in (ne + 1)..Len(text) :
          /\ text[u] = UnitOf(f)
          /\ AllWhitespace(text, ne + 1, u - 1)

HasWellFormed(f, text, p) ==
    \E ns \in 1..Len(text) : \E ne \in ns..Len(text) : WellFormedAt(f, text, p, ns, ne)

Extracted == pc = "AppendLedger"

\* C6: for every text that holds a well-formed labelled quantity of a
\* field, the field's extracted value is the number of the first such
\* quantity in the text.
C6_FirstWellFormedValue ==
    Extracted =>
        \A f \in FieldSet : \A p \in 1..Len(recipe_text) :
            ( /\ HasWellFormed(f, recipe_text, p)
              /\ \A q \in 1..(p - 1) : ~HasWellFormed(f, recipe_text, q) ) =>
                \A ns \in 1..Len(recipe_text) : \A ne \in ns..Len(recipe_text) :
                    WellFormedAt(f, recipe_text, p, ns, ne) =>
                        nutrition_values[f] = Float(SubSeq(recipe_text, ns, ne))

\* two well-formed quantities of fat with different numbers
C6_Witness ==
    /\ Extracted
    /\ \E p \in 1..Len(recipe_text) : \E q \in (p + 1)..Len(recipe_text) :
          /\ HasWellFormed("fat_g", recipe_text, p)
          /\ HasWellFormed("fat_g", recipe_text, q)
    /\ nutrition_values["fat_g"] = <<7, 1>>
    /\ nutrition_values["cal_kcal"] = <<350, 1>>

\* the value of field f when its pattern alone is searched in the text
OwnValue(f, text) == ExtractField(NoValues, f, text)[f]

ContractExample ==
    << "L_cal", "FWCOLON", "3", "5", "0", "kcal", "NL",
       "L_protein", ":", "SP", "2", "0", "g", "NL",
       "L_fat", ":", "1", "0", ".", "5", "g" >>

\* C7: the extractor returns all four fields for every text; a field whose
\* label is absent or whose quantity is malformed is 0.0; and the value of
\* each field is what its own pattern finds, whatever the other three find.
C7_FieldsIndependent ==
    Extracted =>
        /\ DOMAIN nutrition_values = FieldSet
        /\ \A f \in FieldSet :
              /\ (\A p \in 1..Len(recipe_text) : ~HasWellFormed(f, recipe_text, p))
                     => nutrition_values[f] = Zero
              /\ nutrition_values[f] = OwnValue(f, recipe_text)
        /\ recipe_text = ContractExample =>
              nutrition_values = [cal_kcal |-> <<350, 1>>, protein_g |-> <<20, 1>>,
                                  fat_g |-> <<105, 10>>, carb_g |-> Zero]

\* calories malformed, protein absent, fat found, carbohydrate absent
C7_Witness ==
    /\ Extracted
    /\ \E p \in 1..Len(recipe_text) : recipe_text[p] = "L_cal"
    /\ nutrition_values["cal_kcal"] = Zero
    /\ nutrition_values["fat_g"] # Zero
    /\ nutrition_values["carb_g"] = Zero

====
